---- MODULE Spec2Model ----
(***************************************************************************)
(* Model of scripts/JewelryDatasetManager.py and of                        *)
(* webhook_handler/webhook_handler.py.                                     *)
(*                                                                         *)
(* The subsystems are independent, each with its own specification:        *)
(*   Spec       JewelryWebScraper.start_scraping (asyncio tasks bounded by *)
(*              a semaphore, one site after another);                      *)
(*   LocalSpec  JewelryDatasetManager.process_local_folders (a thread pool *)
(*              per category, metadata saved per category);                *)
(*   RunSpec    a run of either of the two, with fairness;                 *)
(*   WebhookSpec  the Flask view handle_webhook serving requests.          *)
(* The environment (HTTP responses, file contents, the random number       *)
(* generator, the blob store) is a nondeterministic choice at the step     *)
(* that consumes it; what it answered is kept in the task's record.        *)
(***************************************************************************)
EXTENDS Integers, Sequences, FiniteSets, TLC

VARIABLES
    \* ---- JewelryWebScraper ----
    config,         \* self.config: concurrent_requests, max_retries, 'user_agents' present'
    siteIdx,        \* position of start_scraping's loop in target_sites
    sitePc,         \* "idle" | "discover" | "gather" | "finished"
    product_urls,   \* scrape_site's local: the discovered URL sequence
    semaphore,      \* value of the asyncio.Semaphore of the current scrape_site
    task,           \* the scrape_product coroutines handed to asyncio.gather
    images,         \* <output_dir>/images: file name -> content
    artifacts,      \* <output_dir>: artifact file name -> content
    siteStatus,     \* per site: "pending" | "aborted" | "persisted"
    handed,         \* per site: the valid_results given to save_scrape_results
    siteLog,        \* the errors scrape_site logged: <<site, message>>
    \* ---- JewelryDatasetManager ----
    tree,           \* base_dir: category -> the image files under it, in glob order
    catIdx,         \* position of the loop over base_path.iterdir()
    catPc,          \* "idle" | "list" | "pool" | "finished"
    image_paths,    \* the category's globbed image paths, in submission order
    future,         \* the futures of the category's ThreadPoolExecutor
    outFiles,       \* output_dir/<category>/: <<category, name>> -> what wrote it
    s3,             \* keys present in the bucket
    metadataFiles,  \* output_dir/<category>_metadata.json, per category
    saveCount,      \* per category: number of save_metadata calls in this run
    clobbered,      \* normalized files that a later img.save wrote over, and by whom
    \* ---- webhook_handler ----
    served,         \* the requests handle_webhook got, each with its response
    appLog          \* what app.logger.info was given: <<request number, line>>

scraperVars == <<config, siteIdx, sitePc, product_urls, semaphore, task,
                 images, artifacts, siteStatus, handed, siteLog>>
localVars == <<tree, catIdx, catPc, image_paths, future, outFiles, s3,
               metadataFiles, saveCount, clobbered>>
webhookVars == <<served, appLog>>
vars == <<scraperVars, localVars, webhookVars>>

----------------------------------------------------------------------------
\* Bounds of the model

\* longest URL sequence a discovery returns
MaxUrls == 2
\* largest configured concurrent_requests
MaxCap == 2
\* most image files in one category directory
MaxImages == 2
\* most requests the webhook endpoint is sent
MaxRequests == 2

----------------------------------------------------------------------------
\* JewelryWebScraper: configuration and values

\* config['target_sites']: the sites' 'url' values, in order
target_sites == <<"siteA", "siteB">>

\* the product pages a site lists, in discovery order; a URL is the sequence
\* of its '/'-separated segments, and two pages share their last segment
Listing(site_url) ==
    IF site_url = "siteA"
      THEN <<(<<"shop", "ring">>), (<<"sale", "ring">>), (<<"shop", "band">>)>>
      ELSE <<(<<"sale", "ring">>), (<<"shop", "band">>), (<<"shop", "ring">>)>>

Urls == UNION {{Listing(target_sites[s])[k] :
                  k \in DOMAIN Listing(target_sites[s])} :
               s \in DOMAIN target_sites}

\* the selectors in the order scrape_product looks them up
SelectorOrder == <<"image", "title", "price">>

\* the three configured selectors of a site
Selectors == {SelectorOrder[k] : k \in DOMAIN SelectorOrder}

\* the lookups that returned a match before the first one that did not, when
\* the page matches the selectors in `matching`
LookedUp(matching) ==
    {SelectorOrder[k] : k \in {j \in DOMAIN SelectorOrder :
                                 \A h \in 1..j : SelectorOrder[h] \in matching}}

\* url.split('/')[-1]
LastSegment(url) == url[Len(url)]

\* f"{url.split('/')[-1]}.jpg"
ImageFilename(url) == <<LastSegment(url), "jpg">>

ImageNames == {ImageFilename(u) : u \in Urls}

\* the dict scrape_product returns
ProductRecord(url) ==
    [kind |-> "dict", url |-> url, title |-> <<"title", url>>,
     price |-> <<"price", url>>, image_filename |-> ImageFilename(url)]

NoneValue == [kind |-> "None"]
Pending == [kind |-> "pending"]

\* a coroutine created by the list comprehension of scrape_site
NewTask(site, url) ==
    [site |-> site, url |-> url, pc |-> "queued", page |-> "none", sel |-> {},
     img |-> "none", save |-> "none", result |-> Pending, log |-> {},
     delays |-> 0, gets |-> [page |-> 0, image |-> 0]]

Smaller(a, b) == IF a < b THEN a ELSE b

Tasks == DOMAIN task

\* tasks inside "async with semaphore"
InFlight == {i \in Tasks : task[i].pc \in {"sleep", "get", "image", "save"}}

\* (mutant) the batch counts as gathered when its first task completes
AllDone_FirstCompleted == \E i \in Tasks : task[i].pc = "done"

AllDone == \A i \in Tasks : task[i].pc = "done"

----------------------------------------------------------------------------
\* JewelryWebScraper: the decisions the code takes

\* (mutant) the permit count is not looked at
CanAcquire_Unguarded == TRUE

\* asyncio.Semaphore.acquire proceeds only while the value is positive
CanAcquire == semaphore > 0

\* "if response.status == 200" of scrape_product
PageOk(status) == status = "200"

\* the three soup.select_one(...) lookups; a missing match raises
SelectorsOk(sel) == Selectors \subseteq sel

\* (mutant) "if image_data is not None:" lets an empty body through
ImageDataTruthy_NotNone(img) == img \in {"data", "empty"}

\* "if image_data:" of scrape_product: None and b'' are falsy
ImageDataTruthy(img) == img = "data"

\* (mutant) the filter keeps everything gather returned
IsDict_KeepsAll(r) == r.kind \in {"dict", "None"}

\* "isinstance(r, dict)" of scrape_site
IsDict(r) == r.kind = "dict"

\* the file names save_scrape_results writes for a site
JsonName(site_url) == <<"scrape_results", "json">>
CsvName(site_url) == <<"scrape_results", "csv">>

\* the results list asyncio.gather returns, in submission order
GatherResults == [i \in 1..Len(product_urls) |-> task[i].result]

\* valid_results = [r for r in results if isinstance(r, dict)]
ValidResults == SelectSeq(GatherResults, IsDict)

\* the loop of start_scraping moves to the next site
NextSite ==
    /\ siteIdx' = siteIdx + 1
    /\ sitePc' = IF siteIdx + 1 > Len(target_sites) THEN "finished" ELSE "discover"

\* (mutant) the permit is released only on the path that returns a record
PermitsAfterExit_LeakOnNone(result) ==
    IF IsDict(result) THEN semaphore + 1 ELSE semaphore

\* __aexit__ of "async with semaphore" releases on every way out of the block
PermitsAfterExit(result) == semaphore + 1

\* leaving "async with semaphore": the task's coroutine returns `result`
Finish(i, fields, result, log) ==
    /\ task' = [task EXCEPT ![i] = [fields EXCEPT !.pc = "done",
                                                  !.result = result,
                                                  !.log = log]]
    /\ semaphore' = PermitsAfterExit(result)

\* (mutant) no asyncio.sleep: the request follows the acquire directly
AfterAcquire_NoDelay(t) == [t EXCEPT !.pc = "get"]

\* the first statement inside "async with semaphore" is the asyncio.sleep
AfterAcquire(t) == [t EXCEPT !.pc = "sleep"]

\* the default of config['max_retries']
max_retries == 3

\* the values of config['max_retries'] tried
RetryValues == {0, max_retries}

\* (mutant) a failed page request is repeated max_retries times
Attempts_UsesMaxRetries(cfg) == 1 + cfg.max_retries

\* scrape_product has no loop and never reads config['max_retries']: a
\* request is issued once
Attempts(cfg) == 1

----------------------------------------------------------------------------
\* JewelryWebScraper: actions

ScraperInit ==
    /\ config \in [concurrent_requests : 1..MaxCap, user_agents : BOOLEAN,
                  max_retries : RetryValues]
    /\ siteIdx = 1
    /\ sitePc = "discover"
    /\ product_urls = <<>>
    /\ semaphore = 0
    /\ task = <<>>
    /\ images = [n \in ImageNames |-> <<>>]
    /\ artifacts = <<>>
    /\ siteStatus = [s \in 1..Len(target_sites) |-> "pending"]
    /\ handed = [s \in 1..Len(target_sites) |-> <<>>]
    /\ siteLog = {}

\* (mutant) no try/except in scrape_site: the exception ends start_scraping
DiscoverRaises_Propagates ==
    /\ sitePc = "discover"
    /\ sitePc' = "finished"
    /\ siteStatus' = [siteStatus EXCEPT ![siteIdx] = "aborted"]
    /\ UNCHANGED <<config, siteIdx, product_urls, semaphore, task, images,
                   artifacts, handed, siteLog>>
    /\ UNCHANGED localVars
    /\ UNCHANGED webhookVars

\* get_product_urls raises: the except clause of scrape_site logs; next site
DiscoverRaises ==
    /\ sitePc = "discover"
    /\ siteLog' = siteLog \cup {<<siteIdx, "discovery raised">>}
    /\ siteStatus' = [siteStatus EXCEPT ![siteIdx] = "aborted"]
    /\ NextSite
    /\ UNCHANGED <<config, product_urls, semaphore, task, images, artifacts, handed>>
    /\ UNCHANGED localVars
    /\ UNCHANGED webhookVars

\* get_product_urls as written returns None: "for url in product_urls" raises
\* TypeError inside the try of scrape_site
DiscoverNone ==
    /\ sitePc = "discover"
    /\ siteLog' = siteLog \cup {<<siteIdx, "TypeError">>}
    /\ siteStatus' = [siteStatus EXCEPT ![siteIdx] = "aborted"]
    /\ NextSite
    /\ UNCHANGED <<config, product_urls, semaphore, task, images, artifacts, handed>>
    /\ UNCHANGED localVars
    /\ UNCHANGED webhookVars

\* a discovery strategy returns URLs: the semaphore and the coroutines are made
DiscoverUrls ==
    /\ sitePc = "discover"
    /\ \E n \in 0..MaxUrls :
         LET listing == Listing(target_sites[siteIdx])
             urls == SubSeq(listing, 1, Smaller(n, Len(listing))) IN
         /\ product_urls' = urls
         /\ task' = [i \in 1..Len(urls) |-> NewTask(siteIdx, urls[i])]
    /\ semaphore' = config.concurrent_requests
    /\ sitePc' = "gather"
    /\ UNCHANGED <<config, siteIdx, images, artifacts, siteStatus, handed, siteLog>>
    /\ UNCHANGED localVars
    /\ UNCHANGED webhookVars

\* "async with semaphore": a waiting coroutine takes a permit
Acquire(i) ==
    /\ sitePc = "gather"
    /\ task[i].pc = "queued"
    /\ CanAcquire
    /\ semaphore' = semaphore - 1
    /\ task' = [task EXCEPT ![i] = AfterAcquire(task[i])]
    /\ UNCHANGED <<config, siteIdx, sitePc, product_urls, images, artifacts,
                   siteStatus, handed, siteLog>>
    /\ UNCHANGED localVars
    /\ UNCHANGED webhookVars

\* asyncio.sleep returns; random.choice(self.config['user_agents']) raises
\* KeyError when the configuration has no 'user_agents' (the default has none)
SleepDone(i) ==
    /\ sitePc = "gather"
    /\ task[i].pc = "sleep"
    /\ LET t == [task[i] EXCEPT !.delays = @ + 1] IN
       IF config.user_agents
         THEN /\ task' = [task EXCEPT ![i] = [t EXCEPT !.pc = "get"]]
              /\ UNCHANGED semaphore
         ELSE Finish(i, t, NoneValue, {"scrape_product"})
    /\ UNCHANGED <<config, siteIdx, sitePc, product_urls, images, artifacts,
                   siteStatus, handed, siteLog>>
    /\ UNCHANGED localVars
    /\ UNCHANGED webhookVars

\* session.get(url) answers (or raises), and on 200 the page is parsed
PageResponse(i) ==
    /\ sitePc = "gather"
    /\ task[i].pc = "get"
    /\ \E status \in {"200", "non200", "exc"} :
       \E matching \in (IF status = "200" THEN SUBSET Selectors ELSE {{}}) :
         LET sel == LookedUp(matching)
             t == [task[i] EXCEPT !.page = status, !.sel = sel,
                                  !.gets.page = @ + 1] IN
         \* a request is repeated while attempts are left: with the single
         \* attempt of scrape_product, never
         IF status # "200" /\ t.gets.page < Attempts(config)
           THEN /\ task' = [task EXCEPT ![i] = t]
                /\ UNCHANGED semaphore
           ELSE IF status = "exc"
             THEN Finish(i, t, NoneValue, {"scrape_product"})
             ELSE IF ~PageOk(status)
               THEN Finish(i, t, NoneValue, {})
               ELSE IF ~SelectorsOk(sel)
                 THEN Finish(i, t, NoneValue, {"scrape_product"})
                 ELSE /\ task' = [task EXCEPT ![i] = [t EXCEPT !.pc = "image"]]
                      /\ UNCHANGED semaphore
    /\ UNCHANGED <<config, siteIdx, sitePc, product_urls, images, artifacts,
                   siteStatus, handed, siteLog>>
    /\ UNCHANGED localVars
    /\ UNCHANGED webhookVars

\* download_image returns the bytes, or None (non-200, or an exception it logs)
ImageResponse(i) ==
    /\ sitePc = "gather"
    /\ task[i].pc = "image"
    /\ \E img \in {"data", "empty", "non200", "exc"} :
         LET t == [task[i] EXCEPT !.img = img, !.gets.image = @ + 1] IN
         IF ImageDataTruthy(img)
           THEN /\ task' = [task EXCEPT ![i] = [t EXCEPT !.pc = "save"]]
                /\ UNCHANGED semaphore
           ELSE Finish(i, t, NoneValue,
                       IF img = "exc" THEN {"download_image"} ELSE {})
    /\ UNCHANGED <<config, siteIdx, sitePc, product_urls, images, artifacts,
                   siteStatus, handed, siteLog>>
    /\ UNCHANGED localVars
    /\ UNCHANGED webhookVars

\* save_image writes <output_dir>/images/<image_filename>, or raises
SaveImage(i) ==
    /\ sitePc = "gather"
    /\ task[i].pc = "save"
    /\ \E save \in {"ok", "fail"} :
         LET t == [task[i] EXCEPT !.save = save]
             name == ImageFilename(task[i].url) IN
         IF save = "ok"
           THEN /\ images' = [images EXCEPT ![name] = <<"bytes", task[i].url>>]
                /\ Finish(i, t, ProductRecord(task[i].url), {})
           ELSE /\ UNCHANGED images
                /\ Finish(i, t, NoneValue, {"scrape_product"})
    /\ UNCHANGED <<config, siteIdx, sitePc, product_urls, artifacts,
                   siteStatus, handed, siteLog>>
    /\ UNCHANGED localVars
    /\ UNCHANGED webhookVars

\* asyncio.gather returned: filter, save_scrape_results, next site
Persist ==
    /\ sitePc = "gather"
    /\ AllDone
    /\ LET site_url == target_sites[siteIdx]
           content == [site |-> siteIdx, records |-> ValidResults] IN
         artifacts' = (JsonName(site_url) :> content) @@
                      (CsvName(site_url) :> content) @@ artifacts
    /\ handed' = [handed EXCEPT ![siteIdx] = ValidResults]
    /\ siteStatus' = [siteStatus EXCEPT ![siteIdx] = "persisted"]
    /\ NextSite
    /\ UNCHANGED <<config, product_urls, semaphore, task, images, siteLog>>
    /\ UNCHANGED localVars
    /\ UNCHANGED webhookVars

----------------------------------------------------------------------------
\* JewelryDatasetManager: configuration and values

\* config['min_image_size']
min_image_size == 512

\* random.randint(1000, 9999): the model draws from the low end of the range
RandLo == 1000
RandHi == 9999
Disambiguators == {r \in {RandLo, RandLo + 1} : r <= RandHi}

\* the immediate subdirectories of base_dir, in iterdir() order
Categories == <<"rings", "earrings">>

\* the image files that may lie under a category directory, in the order
\* list(glob('**/*.jpg')) + list(glob('**/*.png')) yields them; a path is the
\* sequence of its segments below base_dir, the file name split into stem and
\* extension
DirListing(category) ==
    IF category = "rings"
      THEN <<(<<"rings", "a", "jpg">>), (<<"rings", "sub", "a", "jpg">>),
             (<<"rings", "b", "png">>)>>
      ELSE <<(<<"earrings", "a", "jpg">>), (<<"earrings", "a", "png">>)>>

\* widths and heights around the threshold
Sizes == {min_image_size - 1, min_image_size}

\* image_path.stem, image_path.parent.name
Stem(path) == path[Len(path) - 1]
ParentName(path) == path[Len(path) - 2]

\* f"{image_path.stem}_{random.randint(1000, 9999)}.jpg"
OutputName(path, rand) == <<Stem(path), rand, "jpg">>

\* output_dir / output_name, with output_dir = output_base / category_name
OutputPath(category, path, rand) == <<category, OutputName(path, rand)>>

\* f"{category}/{filename}" as process_single_image passes it
S3Key(path, rand) == <<ParentName(path), OutputName(path, rand)>>

\* output_base / f"{category}_metadata.json"
MetadataName(category) == <<category, "_metadata.json">>

\* (mutant) only the larger dimension is compared
TooSmall_Max(size) ==
    (IF size[1] > size[2] THEN size[1] ELSE size[2]) < min_image_size

\* (mutant) "<=" in place of "<"
TooSmall_OrEqual(size) ==
    (IF size[1] < size[2] THEN size[1] ELSE size[2]) <= min_image_size

\* "min(img.size) < self.config['min_image_size']"
TooSmall(size) ==
    (IF size[1] < size[2] THEN size[1] ELSE size[2]) < min_image_size

\* the dict process_single_image returns
ImageRecord(category, path, size, rand) ==
    [kind |-> "dict", original_path |-> path,
     processed_path |-> OutputPath(category, path, rand),
     category |-> ParentName(path), dimensions |-> size,
     s3_key |-> S3Key(path, rand)]

\* "if result:" of process_local_folders
Truthy(r) == r.kind = "dict"

\* a future returned by executor.submit
NewFuture(path) ==
    [path |-> path, pc |-> "submitted", open |-> "none", size |-> <<>>,
     load |-> "none", rand |-> 0, upload |-> "none", result |-> Pending,
     log |-> {}]

\* the content of a normalized file: the image it was made from, and whether
\* this call of process_local_folders or an earlier one wrote it
Normalized(path, call) == [src |-> path, call |-> call]

\* (mutant) "if metadata:" before the call: nothing written for an empty list
WrittenMetadata_SkipsEmpty(category, metadata) ==
    IF metadata = <<>> THEN metadataFiles
    ELSE (MetadataName(category) :> metadata) @@ metadataFiles

\* save_metadata: json.dump into output_base / f"{category}_metadata.json"
WrittenMetadata(category, metadata) ==
    (MetadataName(category) :> metadata) @@ metadataFiles

\* (mutant) upload_to_s3 without its try/except: the exception reaches the
\* except clause of process_single_image, which returns None
AfterUpload_FailureRejects(rec, uploaded) ==
    IF uploaded THEN rec ELSE NoneValue

\* what process_single_image returns after upload_to_s3 came back: the record,
\* whether or not the upload went through
AfterUpload(rec, uploaded) == rec

Futures == DOMAIN future

AllFuturesDone == \A i \in Futures : future[i].pc = "done"

\* the metadata list built by the loop over the futures
CollectedMetadata ==
    SelectSeq([i \in 1..Len(image_paths) |-> future[i].result], Truthy)

\* the loop over base_path.iterdir() moves on
\* (mutant) future.result() outside a try, and a failing future re-raising:
\* the exception leaves process_local_folders
NextCategory_RaisesOnFailure ==
    /\ catIdx' = catIdx + 1
    /\ catPc' = IF \E i \in Futures : future[i].log # {}
                THEN "raised"
                ELSE IF catIdx + 1 > Len(Categories) THEN "finished" ELSE "list"

NextCategory ==
    /\ catIdx' = catIdx + 1
    /\ catPc' = IF catIdx + 1 > Len(Categories) THEN "finished" ELSE "list"

CategorySet == {Categories[k] : k \in DOMAIN Categories}

\* the directory trees process_local_folders is run over: each category
\* holds the first files of its listing
Trees ==
    {[c \in CategorySet |->
         SubSeq(DirListing(c), 1, Smaller(n[c], Len(DirListing(c))))] :
       n \in [CategorySet -> 0..MaxImages]}

----------------------------------------------------------------------------
\* JewelryDatasetManager: actions

\* what an earlier call of process_local_folders left behind when it accepted
\* the first file of the first category, drew RandLo for it and uploaded it
EarlierRun ==
    LET category == Categories[1]
        path == DirListing(category)[1]
        size == <<min_image_size, min_image_size>> IN
    [outFiles |-> (OutputPath(category, path, RandLo) :>
                      Normalized(path, "earlier")),
     s3 |-> {S3Key(path, RandLo)},
     metadataFiles |->
        [n \in {MetadataName(c) : c \in CategorySet} |->
            IF n = MetadataName(category)
              THEN <<ImageRecord(category, path, size, RandLo)>> ELSE <<>>]]

\* a first call (empty output directory), or a call after an earlier one
LocalInit ==
    /\ tree \in Trees
    /\ catIdx = 1
    /\ catPc = "list"
    /\ image_paths = <<>>
    /\ future = <<>>
    /\ \/ /\ outFiles = <<>>
          /\ s3 = {}
          /\ metadataFiles = <<>>
       \/ /\ outFiles = EarlierRun.outFiles
          /\ s3 = EarlierRun.s3
          /\ metadataFiles = EarlierRun.metadataFiles
    /\ saveCount = [k \in DOMAIN Categories |-> 0]
    /\ clobbered = {}

\* lines 60-81: the category's output directory, the glob, the submissions
ListCategory ==
    /\ catPc = "list"
    /\ image_paths' = tree[Categories[catIdx]]
    /\ future' = [i \in 1..Len(tree[Categories[catIdx]]) |->
                    NewFuture(tree[Categories[catIdx]][i])]
    /\ catPc' = "pool"
    /\ UNCHANGED <<tree, catIdx, outFiles, s3, metadataFiles, saveCount,
                   clobbered>>
    /\ UNCHANGED scraperVars
    /\ UNCHANGED webhookVars

\* process_single_image up to img.save. Image.open raises on a file it cannot
\* identify; otherwise it reads the header only, so the size check comes
\* before the pixel data is decoded, and a truncated file raises in
\* convert()/save() before the output file is opened. An accepted image is
\* written under a new name (convert('RGB') changes neither size nor name).
Normalize(i) ==
    /\ catPc = "pool"
    /\ future[i].pc = "submitted"
    /\ \/ /\ future' = [future EXCEPT ![i].pc = "done",
                                      ![i].open = "unidentified",
                                      ![i].result = NoneValue,
                                      ![i].log = {"process_single_image"}]
          /\ UNCHANGED <<outFiles, clobbered>>
       \/ \E size \in Sizes \X Sizes : \E load \in {"ok", "truncated"} :
          \E rand \in Disambiguators :
            LET category == Categories[catIdx]
                out == OutputPath(category, future[i].path, rand)
                f == [future[i] EXCEPT !.open = "ok", !.size = size] IN
            IF TooSmall(size)
              THEN /\ future' = [future EXCEPT ![i] =
                                   [f EXCEPT !.pc = "done",
                                             !.result = NoneValue]]
                   /\ UNCHANGED <<outFiles, clobbered>>
              ELSE IF load = "truncated"
                THEN /\ future' = [future EXCEPT ![i] =
                                     [f EXCEPT !.pc = "done",
                                               !.load = load,
                                               !.result = NoneValue,
                                               !.log = {"process_single_image"}]]
                     /\ UNCHANGED <<outFiles, clobbered>>
                ELSE /\ future' = [future EXCEPT ![i] =
                                     [f EXCEPT !.pc = "saved", !.load = load,
                                               !.rand = rand]]
                     /\ outFiles' = (out :> Normalized(future[i].path, "this"))
                                    @@ outFiles
                     /\ clobbered' =
                          IF out \in DOMAIN outFiles
                            THEN clobbered \cup
                                   {[name |-> out, was |-> outFiles[out],
                                     by |-> future[i].path]}
                            ELSE clobbered
    /\ UNCHANGED <<tree, catIdx, catPc, image_paths, s3, metadataFiles,
                   saveCount>>
    /\ UNCHANGED scraperVars
    /\ UNCHANGED webhookVars

\* upload_to_s3 (its failure is caught and logged), then the record is returned
Upload(i) ==
    /\ catPc = "pool"
    /\ future[i].pc = "saved"
    /\ LET f == future[i]
           category == Categories[catIdx]
           rec == ImageRecord(category, f.path, f.size, f.rand) IN
         \/ /\ s3' = s3 \cup {S3Key(f.path, f.rand)}
            /\ future' = [future EXCEPT ![i].pc = "done", ![i].upload = "ok",
                                        ![i].result = AfterUpload(rec, TRUE)]
         \/ /\ UNCHANGED s3
            /\ future' = [future EXCEPT ![i].pc = "done", ![i].upload = "fail",
                                        ![i].result = AfterUpload(rec, FALSE),
                                        ![i].log = {"upload_to_s3"}]
    /\ UNCHANGED <<tree, catIdx, catPc, image_paths, outFiles,
                   metadataFiles, saveCount, clobbered>>
    /\ UNCHANGED scraperVars
    /\ UNCHANGED webhookVars

\* lines 83-94: the results are collected, the pool is left, save_metadata
SaveMetadata ==
    /\ catPc = "pool"
    /\ AllFuturesDone
    /\ metadataFiles' = WrittenMetadata(Categories[catIdx], CollectedMetadata)
    /\ saveCount' = [saveCount EXCEPT ![catIdx] = @ + 1]
    /\ NextCategory
    /\ UNCHANGED <<tree, image_paths, future, outFiles, s3, clobbered>>
    /\ UNCHANGED scraperVars
    /\ UNCHANGED webhookVars

----------------------------------------------------------------------------
\* webhook_handler: values

\* os.getenv('WEBHOOK_SECRET', 'your_webhook_secret')
WEBHOOK_SECRET == "your_webhook_secret"

\* a secret the endpoint does not hold
OtherSecret == "not_the_secret"

\* a str: the header value as Flask hands it over (decoded as latin-1, so it
\* may hold non-ASCII characters), or a hexdigest
Str(chars, ascii) == [kind |-> "str", chars |-> chars, ascii |-> ascii]

\* the keys of the payloads, in the order sort_keys puts them
KeyOrder == <<"event", "public_id", "resource_type">>

KeyRank(key) == CHOOSE r \in DOMAIN KeyOrder : KeyOrder[r] = key

\* JSON bodies as request.get_json() parses them: an object keeps the order
\* of its members on the wire
Dict(items) == [kind |-> "dict", items |-> items]
List(items) == [kind |-> "list", items |-> items]

Payloads ==
    {Dict(<<<<"event", "upload">>, <<"public_id", "abc">>>>),
     Dict(<<<<"public_id", "abc">>, <<"event", "upload">>>>),
     Dict(<<<<"public_id", "abc">>, <<"event", "delete">>>>),
     List(<<"upload">>)}

\* dict.get(key): the member's value, None when there is none
Get(data, key) ==
    IF \E k \in DOMAIN data.items : data.items[k][1] = key
      THEN data.items[CHOOSE k \in DOMAIN data.items : data.items[k][1] = key][2]
      ELSE "None"

RECURSIVE Insert(_, _)
\* the member put at its place in a sequence sorted by key
Insert(item, sorted) ==
    IF sorted = <<>> THEN <<item>>
    ELSE IF KeyRank(item[1]) <= KeyRank(Head(sorted)[1])
      THEN <<item>> \o sorted
      ELSE <<Head(sorted)>> \o Insert(item, Tail(sorted))

RECURSIVE SortKeys(_)
\* sort_keys=True
SortKeys(items) ==
    IF items = <<>> THEN <<>> ELSE Insert(Head(items), SortKeys(Tail(items)))

Quoted(s) == <<"quoted", s>>

RECURSIVE Joined(_)
\* the elements' texts with the item separator ',' between them
Joined(texts) ==
    IF texts = <<>> THEN <<>>
    ELSE IF Len(texts) = 1 THEN texts[1]
    ELSE texts[1] \o <<",">> \o Joined(Tail(texts))

\* json.dumps(data, separators=(',', ':'), sort_keys=True): the text as a
\* sequence of tokens
Dumps(data) ==
    IF data.kind = "dict"
      THEN LET members == SortKeys(data.items) IN
           <<"{">> \o
           Joined([k \in DOMAIN members |->
                     <<Quoted(members[k][1]), ":", Quoted(members[k][2])>>]) \o
           <<"}">>
      ELSE <<"[">> \o
           Joined([k \in DOMAIN data.items |-> <<Quoted(data.items[k])>>]) \o
           <<"]">>

\* hmac.new(key, msg, sha256).hexdigest(): an ASCII str determined by key and
\* message, different for different keys or messages
HmacSha256Hex(key, msg) == Str(<<"hmac-sha256", key, msg>>, TRUE)

\* a hexdigest with the character at one position changed
Mutated(digest, position) == Str(digest.chars \o <<position>>, TRUE)

\* the values of X-Webhook-Signature tried: None (no header), empty, a text with a
\* non-ASCII character, digests of the payloads (good, with a character
\* changed, under another secret)
Signatures ==
    {NoneValue, Str(<<>>, TRUE), Str(<<"e-acute">>, FALSE)}
      \cup {HmacSha256Hex(WEBHOOK_SECRET, Dumps(p)) : p \in Payloads}
      \cup {Mutated(HmacSha256Hex(WEBHOOK_SECRET, Dumps(p)), position) :
               p \in Payloads, position \in {"first", "last"}}
      \cup {HmacSha256Hex(OtherSecret, Dumps(p)) : p \in Payloads}

Requests == [payload : Payloads, signature : Signatures]

----------------------------------------------------------------------------
\* webhook_handler: the decisions the code takes

\* a call that returned `value`, and one that raised
Returned(value) == [raised |-> "nothing", value |-> value]
Raised(exception) == [raised |-> exception, value |-> FALSE]

\* hmac.compare_digest(a, b) on two str: TypeError unless both are ASCII
compare_digest(a, b) ==
    IF ~a.ascii \/ ~b.ascii THEN Raised("TypeError") ELSE Returned(a = b)

verify_signature(data, signature) ==
    compare_digest(HmacSha256Hex(WEBHOOK_SECRET, Dumps(data)), signature)

\* "not signature": None or the empty str
Falsy(signature) == signature = NoneValue \/ signature.chars = <<>>

\* what the view does with one request: the status of the response and the
\* lines logged. An exception that leaves the view makes Flask answer 500.
handle_webhook(req) ==
    LET signature == req.signature
        data == req.payload IN
    IF Falsy(signature)
      THEN [status |-> 400, logged |-> <<>>]
      ELSE LET verified == verify_signature(data, signature) IN
           IF verified.raised # "nothing"
             THEN [status |-> 500, logged |-> <<>>]
             ELSE IF ~verified.value
               THEN [status |-> 400, logged |-> <<>>]
               \* data.get raises AttributeError on a payload that is no dict
               ELSE IF data.kind # "dict"
                 THEN [status |-> 500, logged |-> <<>>]
                 ELSE [status |-> 200,
                       logged |-> <<<<Get(data, "event"),
                                      Get(data, "public_id")>>>>]

----------------------------------------------------------------------------
\* webhook_handler: actions

\* the endpoint before any request
WebhookParked ==
    /\ served = <<>>
    /\ appLog = <<>>

\* POST /webhook
HandleWebhook(req) ==
    /\ Len(served) < MaxRequests
    /\ LET response == handle_webhook(req) IN
       /\ served' = Append(served, [request |-> req, status |-> response.status])
       /\ appLog' = appLog \o [k \in DOMAIN response.logged |->
                                 <<Len(served) + 1, response.logged[k]>>]
    /\ UNCHANGED scraperVars
    /\ UNCHANGED localVars

----------------------------------------------------------------------------
\* Specifications

\* the local pipeline as constructed: process_local_folders is not called
LocalParked ==
    /\ tree = [c \in CategorySet |-> <<>>]
    /\ catIdx = 1
    /\ catPc = "idle"
    /\ image_paths = <<>>
    /\ future = <<>>
    /\ outFiles = <<>>
    /\ s3 = {}
    /\ metadataFiles = <<>>
    /\ saveCount = [k \in DOMAIN Categories |-> 0]
    /\ clobbered = {}

\* the scraper as constructed with the default configuration: start_scraping
\* is not called
ScraperParked ==
    /\ config = [concurrent_requests |-> 1, user_agents |-> FALSE,
                 max_retries |-> max_retries]
    /\ siteIdx = 1
    /\ sitePc = "idle"
    /\ product_urls = <<>>
    /\ semaphore = 0
    /\ task = <<>>
    /\ images = [n \in ImageNames |-> <<>>]
    /\ artifacts = <<>>
    /\ siteStatus = [s \in 1..Len(target_sites) |-> "pending"]
    /\ handed = [s \in 1..Len(target_sites) |-> <<>>]
    /\ siteLog = {}

Init == ScraperInit /\ LocalParked /\ WebhookParked

Next ==
    \/ DiscoverRaises
    \/ DiscoverNone
    \/ DiscoverUrls
    \/ \E i \in Tasks : Acquire(i)
    \/ \E i \in Tasks : SleepDone(i)
    \/ \E i \in Tasks : PageResponse(i)
    \/ \E i \in Tasks : ImageResponse(i)
    \/ \E i \in Tasks : SaveImage(i)
    \/ Persist

Spec == Init /\ [][Next]_vars

LocalNext ==
    \/ ListCategory
    \/ \E i \in Futures : Normalize(i)
    \/ \E i \in Futures : Upload(i)
    \/ SaveMetadata

LocalSpecInit == LocalInit /\ ScraperParked /\ WebhookParked

LocalSpec == LocalSpecInit /\ [][LocalNext]_vars

\* one run of the program: either pipeline is called. Every coroutine the
\* event loop holds and every future the thread pool holds is run to its end,
\* and every I/O operation returns or fails: a step that can be taken is taken.
RunInit == Init \/ LocalSpecInit

RunNext == Next \/ LocalNext

RunSpec == RunInit /\ [][RunNext]_vars /\ WF_vars(RunNext)

WebhookInit == ScraperParked /\ LocalParked /\ WebhookParked

WebhookNext == \E req \in Requests : HandleWebhook(req)

WebhookSpec == WebhookInit /\ [][WebhookNext]_vars

----------------------------------------------------------------------------
\* Properties of JewelryWebScraper (checked under Spec)

NumSites == Len(target_sites)

\* site s has just been persisted: task and product_urls are still its own
JustPersisted(s) ==
    /\ siteStatus[s] = "persisted"
    /\ siteIdx = s + 1
    /\ sitePc # "gather"

\* what the environment answered makes the task of URL i a failing one: the
\* configuration lookup or a request raised, the page was not a 200, a
\* selector had no match, the image download gave no data, the save raised
Failed(i) ==
    \/ task[i].page # "200"
    \/ task[i].sel # Selectors
    \/ task[i].img # "data"
    \/ task[i].save # "ok"

\* C1: at most concurrent_requests tasks are inside the semaphore-guarded
\* section in every reachable state, and tasks are in flight only while their
\* own site is being gathered (sites run one after another).
C1_BoundedConcurrency ==
    /\ Cardinality(InFlight) <= config.concurrent_requests
    /\ InFlight # {} =>
         /\ sitePc = "gather"
         /\ \A i \in Tasks : task[i].site = siteIdx

C1_Witness ==
    /\ siteIdx = 2
    /\ Cardinality(InFlight) = config.concurrent_requests
    /\ \E i \in Tasks : task[i].pc = "queued"

\* C2: the result set handed to save_scrape_results holds exactly N - |F|
\* records, one for each URL whose task did not fail.
C2_ExactlyTheSuccesses ==
    \A s \in 1..NumSites :
      JustPersisted(s) =>
        /\ Len(handed[s]) =
             Len(product_urls) - Cardinality({i \in Tasks : Failed(i)})
        /\ \A i \in Tasks :
             ~Failed(i) =>
               \E k \in DOMAIN handed[s] :
                 handed[s][k] = ProductRecord(product_urls[i])

C2_Witness ==
    \E s \in 1..NumSites :
      /\ JustPersisted(s)
      /\ Len(product_urls) = 2
      /\ \E i \in Tasks : task[i].page = "non200"
      /\ Len(handed[s]) = 1

\* C3: a task returns a record only when the page GET gave 200, all three
\* selectors matched and the image GET gave data; every other finished task
\* returns None; an image file is written only by a task whose image fetch
\* succeeded.
C3_RecordOnlyOnFullSuccess ==
    /\ \A i \in Tasks :
         /\ task[i].result.kind = "dict" =>
              /\ task[i].page = "200"
              /\ task[i].sel = Selectors
              /\ task[i].img = "data"
              /\ task[i].result = ProductRecord(task[i].url)
         /\ (task[i].pc = "done" /\ Failed(i)) => task[i].result = NoneValue
         /\ task[i].save # "none" => task[i].img = "data"
    /\ Cardinality({s \in 1..NumSites : siteStatus[s] = "persisted"})
         + (IF sitePc = "gather" THEN 1 ELSE 0) <= 1 =>
         \A n \in ImageNames :
           images[n] # <<>> =>
             \E i \in Tasks : /\ images[n] = <<"bytes", task[i].url>>
                              /\ ImageFilename(task[i].url) = n
                              /\ task[i].img = "data"
                              /\ task[i].save = "ok"

C3_Witness ==
    /\ \E i \in Tasks : /\ task[i].result.kind = "dict"
                        /\ images[ImageFilename(task[i].url)] # <<>>
    /\ \E j \in Tasks : /\ task[j].pc = "done"
                        /\ task[j].img = "empty"
                        /\ task[j].result = NoneValue

\* C4: every persisted site has its own JSON artifact and its own CSV
\* artifact holding exactly the records handed over for that site; no site's
\* persist step overwrites another site's artifact.
C4_OwnArtifactPerSite ==
    \A s \in 1..NumSites :
      siteStatus[s] = "persisted" =>
        \E j, c \in DOMAIN artifacts :
          /\ j[2] = "json"
          /\ c[2] = "csv"
          /\ artifacts[j] = [site |-> s, records |-> handed[s]]
          /\ artifacts[c] = [site |-> s, records |-> handed[s]]

\* C5: a site whose discovery raised or returned no URL sequence is aborted
\* with a log entry and without any artifact of its own, and the loop goes on:
\* no site is skipped, and the run is finished only past the last site.
C5_DiscoveryFailureIsContained ==
    /\ \A s \in 1..NumSites :
         siteStatus[s] = "aborted" =>
           /\ \E e \in siteLog : e[1] = s
           /\ handed[s] = <<>>
           /\ \A n \in DOMAIN artifacts : artifacts[n].site # s
    /\ \A s \in 1..NumSites : (siteStatus[s] # "pending") <=> (s < siteIdx)
    /\ (sitePc = "finished") <=> (siteIdx > NumSites)

C5_Witness ==
    /\ siteStatus[1] = "aborted"
    /\ siteStatus[2] = "persisted"
    /\ Len(handed[2]) > 0

----------------------------------------------------------------------------
\* Properties of JewelryDatasetManager (checked under LocalSpec)

NumCategories == Len(Categories)

\* category k has just been saved: future and image_paths are still its own
JustSaved(k) ==
    /\ catIdx = k + 1
    /\ catPc # "pool"

\* the file behind future i has a dimension below the minimum
Undersized(i) ==
    /\ future[i].open = "ok"
    /\ \/ future[i].size[1] < min_image_size
       \/ future[i].size[2] < min_image_size

\* the file behind future i is valid: decodable, both dimensions large enough
Valid(i) ==
    /\ future[i].open = "ok"
    /\ future[i].load = "ok"
    /\ future[i].size[1] >= min_image_size
    /\ future[i].size[2] >= min_image_size

\* the normalized files in the output directory of a category
FilesOf(category) == {out \in DOMAIN outFiles : out[1] = category}

\* C6: every category directory gets its metadata artifact written, also with
\* zero image files or when every image is rejected or fails; the artifact is
\* then an empty array.
C6_ArtifactForEveryCategory ==
    /\ \A k \in 1..NumCategories :
         k < catIdx =>
           /\ saveCount[k] = 1
           /\ MetadataName(Categories[k]) \in DOMAIN metadataFiles
           /\ JustSaved(k) =>
                /\ metadataFiles[MetadataName(Categories[k])] = CollectedMetadata
                /\ (\A i \in Futures : ~Valid(i)) =>
                     metadataFiles[MetadataName(Categories[k])] = <<>>
    /\ (catPc = "finished") <=> (catIdx > NumCategories)

C6_Witness ==
    /\ catPc = "finished"
    /\ outFiles # <<>>
    /\ Len(tree[Categories[1]]) = 2
    /\ metadataFiles[MetadataName(Categories[1])] = <<>>
    /\ Len(tree[Categories[2]]) = 0
    /\ metadataFiles[MetadataName(Categories[2])] = <<>>

\* C7: every record, returned or persisted, has width and height of at least
\* min_image_size; an image with a dimension below it yields no record, no
\* normalized file and no upload.
C7_RecordsMeetMinimum ==
    /\ \A i \in Futures :
         /\ future[i].result.kind = "dict" =>
              /\ future[i].result.dimensions[1] >= min_image_size
              /\ future[i].result.dimensions[2] >= min_image_size
              /\ future[i].result.dimensions = future[i].size
         /\ Undersized(i) =>
              /\ future[i].pc = "done"
              /\ future[i].result = NoneValue
              /\ future[i].upload = "none"
              /\ \A out \in DOMAIN outFiles :
                   outFiles[out] # Normalized(future[i].path, "this")
    /\ \A n \in DOMAIN metadataFiles :
         \A k \in DOMAIN metadataFiles[n] :
           /\ metadataFiles[n][k].dimensions[1] >= min_image_size
           /\ metadataFiles[n][k].dimensions[2] >= min_image_size

C7_Witness ==
    /\ catPc = "finished"
    /\ \E i \in Futures : /\ future[i].size = <<min_image_size, min_image_size - 1>>
                          /\ future[i].result = NoneValue
    /\ \E j \in Futures : future[j].result.kind = "dict"
    /\ metadataFiles[MetadataName(Categories[NumCategories])] # <<>>

\* C8 as claimed: every image process_single_image returns no record for has
\* a dimension below the minimum.
C8_RejectedMeansUndersized ==
    \A i \in Futures :
      (future[i].pc = "done" /\ future[i].result = NoneValue) => Undersized(i)

\* C8 as amended: every image process_single_image returns no record for
\* either has a dimension below the minimum, or raised while being opened or
\* decoded, which is logged.
C8_RejectedMeansUndersizedOrRaised ==
    \A i \in Futures :
      (future[i].pc = "done" /\ future[i].result = NoneValue) =>
        \/ Undersized(i)
        \/ /\ future[i].open = "unidentified" \/ future[i].load = "truncated"
           /\ future[i].log = {"process_single_image"}

C8_Witness ==
    /\ \E i \in Futures : /\ future[i].pc = "done"
                          /\ future[i].result = NoneValue
                          /\ future[i].load = "truncated"
    /\ \E j \in Futures : /\ future[j].pc = "done"
                          /\ future[j].result = NoneValue
                          /\ Undersized(j)

\* the output directory of the category held no file before this call
EmptyBefore(category) ==
    /\ \A out \in FilesOf(category) : outFiles[out].call = "this"
    /\ \A c \in clobbered : c.name[1] = category => c.was.call = "this"

\* C9: for a category with V valid images and K invalid ones whose output
\* directory was empty, the metadata artifact holds exactly V records, one
\* per valid image, and the output directory holds exactly V normalized files.
C9_ValidImagesCounted ==
    \A k \in 1..NumCategories :
      (JustSaved(k) /\ EmptyBefore(Categories[k])) =>
        LET V == Cardinality({i \in Futures : Valid(i)})
            metadata == metadataFiles[MetadataName(Categories[k])] IN
        /\ Len(metadata) = V
        /\ \A i \in Futures :
             Valid(i) =>
               \E j \in DOMAIN metadata :
                 metadata[j].original_path = future[i].path
        /\ Cardinality(FilesOf(Categories[k])) = V

\* C10: no two accepted images written into the same category output
\* directory receive the same normalized file name: no normalized file is
\* written over, and no two records of an artifact name one processed_path.
C10_UniqueNormalizedNames ==
    /\ clobbered = {}
    /\ \A n \in DOMAIN metadataFiles :
         \A j, k \in DOMAIN metadataFiles[n] :
           j # k =>
             metadataFiles[n][j].processed_path #
               metadataFiles[n][k].processed_path

\* the category whose futures are in `future`
FutureCategory ==
    IF catPc = "pool" THEN Categories[catIdx] ELSE Categories[catIdx - 1]

C12_CategoryIsTopLevelDirectory ==
    /\ \A k \in 1..NumCategories :
         k < catIdx =>
           LET X == Categories[k]
               metadata == metadataFiles[MetadataName(X)] IN
           \A j \in DOMAIN metadata :
             /\ metadata[j].category = X
             /\ metadata[j].s3_key = <<X, metadata[j].processed_path[2]>>
    /\ \A i \in Futures :
         future[i].upload = "ok" => future[i].result.s3_key \in s3

\* outcome r is a failure record for work item `item`: it names the item and
\* describes the error
FailureRecordOf(r, item) ==
    /\ r.kind # "dict"
    /\ "item" \in DOMAIN r
    /\ r.item = item
    /\ "error" \in DOMAIN r

\* C13: a batch of N work items returns N outcomes, one per item, and the
\* outcome of every failed item is a failure record carrying the item's URL
\* or image path and an error description.
C13_FailureOutcomesCarryIdentity ==
    /\ sitePc = "gather" => DOMAIN task = 1..Len(product_urls)
    /\ catPc = "pool" => DOMAIN future = 1..Len(image_paths)
    /\ \A i \in Tasks :
         (task[i].pc = "done" /\ Failed(i)) =>
           FailureRecordOf(task[i].result, task[i].url)
    /\ \A i \in Futures :
         (future[i].pc = "done" /\ ~Valid(i) /\ ~Undersized(i)) =>
           FailureRecordOf(future[i].result, future[i].path)

\* the task of URL i ended without a record because one I/O operation failed:
\* a request raised or timed out, the page or the image was not a 200, or
\* the image file could not be written
IoFailed(i) ==
    /\ task[i].pc = "done"
    /\ \/ task[i].page \in {"exc", "non200"}
       \/ task[i].img \in {"exc", "non200"}
       \/ task[i].save = "fail"

\* C14: every scrape task that ends without a record because of a recoverable
\* I/O failure has emitted a log entry for its item.
C14_IoFailureIsLogged ==
    \A i \in Tasks :
      IoFailed(i) => /\ task[i].result = NoneValue
                     /\ task[i].log # {}

\* the tasks of the current batch that wait for a permit
Queued == {i \in Tasks : task[i].pc = "queued"}

\* C17: a permit is taken when a task starts and given back when it completes,
\* with a record, with nothing, or after an exception: available permits plus
\* in-flight tasks equal concurrent_requests, all permits are back when the
\* batch has finished, and a queued task can start once nothing is in flight.
C17_PermitsConserved ==
    /\ sitePc = "gather" =>
         /\ semaphore + Cardinality(InFlight) = config.concurrent_requests
         /\ AllDone => semaphore = config.concurrent_requests
         /\ (Queued # {} /\ InFlight = {}) => CanAcquire
    /\ \A s \in 1..NumSites :
         JustPersisted(s) => semaphore = config.concurrent_requests

\* a batch finished with a record and with a task whose page request failed,
\* and the permits are back
C17_Witness ==
    /\ sitePc = "gather"
    /\ AllDone
    /\ semaphore = config.concurrent_requests
    /\ \E i, j \in Tasks : /\ task[i].result.kind = "dict"
                            /\ task[j].result = NoneValue
                            /\ task[j].page \in {"non200", "exc"}

\* C19: every task performs exactly one delay, after acquiring its slot and
\* before its page GET: a task that has not finished its delay has issued no
\* request, and a sleeping task holds a permit.
C19_OneDelayBeforeGet ==
    /\ \A i \in Tasks :
         /\ task[i].pc \in {"queued", "sleep"} =>
              /\ task[i].delays = 0
              /\ task[i].gets = [page |-> 0, image |-> 0]
         /\ task[i].pc \in {"get", "image", "save", "done"} =>
              task[i].delays = 1
         /\ task[i].gets.page > 0 => task[i].delays = 1
    /\ sitePc = "gather" =>
         Cardinality({i \in Tasks : task[i].pc = "sleep"})
           <= config.concurrent_requests - semaphore

\* one task has slept and is at its GET, another one sleeps, and between them
\* they hold every permit
C19_Witness ==
    /\ sitePc = "gather"
    /\ semaphore = 0
    /\ \E i, j \in Tasks : /\ task[i].pc = "get"
                            /\ task[i].delays = 1
                            /\ task[j].pc = "sleep"

\* a task of the current batch that is done stays as it is until the next
\* site's discovery replaces the batch
DoneStaysDone ==
    \A i \in Tasks :
      (task[i].pc = "done" /\ sitePc' # "gather")
        => (i \in DOMAIN task' /\ task'[i] = task[i])

\* while the site is gathered, a done task is never touched again
DoneIsFinal ==
    \A i \in Tasks :
      (task[i].pc = "done" /\ sitePc = "gather")
        => (i \in DOMAIN task' /\ task'[i] = task[i])

\* C20: failed scrapes are dropped, not retried: within a site run the page of
\* a discovered URL is requested at most once and its image at most once,
\* whatever max_retries is, and a URL whose task failed never gains a record
\* later in the run.
C20_NoRetry ==
    /\ [](\A i \in Tasks :
            /\ task[i].gets.page <= 1
            /\ task[i].gets.image <= 1
            /\ \A j \in Tasks : task[j].url = task[i].url => j = i
            /\ \A s \in 1..NumSites :
                 (JustPersisted(s) /\ Failed(i)) =>
                   \A k \in DOMAIN handed[s] : handed[s][k].url # task[i].url)
    /\ [][DoneIsFinal /\ DoneStaysDone]_vars

\* with max_retries at its default, a task whose page request failed is done
\* after one request and its site has been persisted without it
C20_Witness ==
    /\ config.max_retries = max_retries
    /\ \E s \in 1..NumSites :
         /\ JustPersisted(s)
         /\ \E i \in Tasks : /\ task[i].page \in {"non200", "exc"}
                             /\ task[i].gets.page = 1
                             /\ task[i].result = NoneValue

\* process_local_folders has returned with an artifact for every category
LocalCompleted ==
    /\ catPc = "finished"
    /\ \A k \in 1..NumCategories :
         /\ saveCount[k] = 1
         /\ MetadataName(Categories[k]) \in DOMAIN metadataFiles

\* start_scraping has returned with every site persisted or aborted
ScrapeCompleted ==
    /\ sitePc = "finished"
    /\ \A s \in 1..NumSites : siteStatus[s] \in {"persisted", "aborted"}

\* C15: a run always completes: whatever is rejected and whatever fails, no
\* item's failure leaves process_local_folders or start_scraping as a raised
\* error; process_local_folders eventually persists an artifact for every
\* category and start_scraping eventually has every site persisted or
\* aborted.
C15_RunCompletes ==
    /\ (catPc # "idle") ~> LocalCompleted
    /\ (sitePc # "idle") ~> ScrapeCompleted
    /\ [](/\ catPc \in {"idle", "list", "pool", "finished"}
          /\ sitePc \in {"idle", "discover", "gather", "finished"})

\* process_local_folders has returned although futures of its last category
\* raised
C15_Witness ==
    /\ LocalCompleted
    /\ \E i \in Futures : /\ future[i].log = {"process_single_image"}
                          /\ future[i].result = NoneValue

\* save_scrape_results is called for site s in this step
PersistsSite(s) ==
    siteStatus[s] # "persisted" /\ siteStatus'[s] = "persisted"

\* save_metadata is called for category k in this step
SavesCategory(k) == saveCount'[k] # saveCount[k]

\* C18: each batch is one forward pass with persistence last: a site is
\* persisted at most once, after its discovery and after every one of its
\* tasks has completed; a category is saved exactly once, after every one of
\* its futures has completed; no item task starts or runs after its batch's
\* persist step.
C18_PersistLast ==
    /\ [][/\ \A s \in 1..NumSites :
              /\ PersistsSite(s) =>
                   /\ s = siteIdx
                   /\ sitePc = "gather"
                   /\ siteStatus[s] = "pending"
                   /\ DOMAIN task = 1..Len(product_urls)
                   /\ \A i \in Tasks : /\ task[i].pc = "done"
                                       /\ task[i].site = s
              /\ siteStatus[s] # "pending" =>
                   /\ siteStatus'[s] = siteStatus[s]
                   /\ handed'[s] = handed[s]
          /\ \A k \in 1..NumCategories :
              SavesCategory(k) =>
                /\ k = catIdx
                /\ catPc = "pool"
                /\ saveCount[k] = 0
                /\ saveCount'[k] = 1
                /\ DOMAIN future = 1..Len(image_paths)
                /\ \A i \in Futures : future[i].pc = "done"
          /\ siteIdx' >= siteIdx
          /\ catIdx' >= catIdx
          /\ sitePc # "gather" => (task' = task \/ sitePc' = "gather")
          /\ catPc # "pool" => (future' = future \/ catPc' = "pool")]_vars
    /\ [](/\ sitePc # "gather" => InFlight = {} /\ Queued = {}
          /\ catPc # "pool" => \A i \in Futures : future[i].pc = "done"
          /\ \A k \in 1..NumCategories : k < catIdx => saveCount[k] = 1)

\* both categories have been saved, the first after its two futures completed
C18_Witness ==
    /\ catPc = "finished"
    /\ saveCount = [k \in 1..NumCategories |-> 1]
    /\ Len(metadataFiles[MetadataName(Categories[1])]) = 2
    /\ Len(metadataFiles[MetadataName(Categories[2])]) = 1

\* the hex HMAC-SHA256 of the payload's sorted-key, compact serialization
\* under the shared secret
ExpectedDigest(payload) == HmacSha256Hex(WEBHOOK_SECRET, Dumps(payload))

\* C16: handle_webhook answers 200 if and only if the signature header is
\* present and equal to the expected digest of the payload; a missing
\* signature and any signature that differs from the digest is answered 400,
\* and a rejected request has no further effect.
C16_AcknowledgedIffSigned ==
    \A k \in DOMAIN served :
      LET req == served[k].request
          signed == req.signature = ExpectedDigest(req.payload) IN
      /\ (served[k].status = 200) <=> signed
      /\ ~signed =>
           /\ served[k].status = 400
           /\ \A j \in DOMAIN appLog : appLog[j][1] # k

\* what handle_webhook does answer: 200 to a signed object, 500 when the view
\* raises (a signature with a non-ASCII character, a signed payload that is
\* no object), 400 otherwise and then nothing is logged
HandleWebhookOutcomes ==
    \A k \in DOMAIN served :
      LET req == served[k].request
          signed == req.signature = ExpectedDigest(req.payload) IN
      /\ (served[k].status = 200) <=> (signed /\ req.payload.kind = "dict")
      /\ (~signed /\ (req.signature = NoneValue \/ req.signature.ascii)) =>
           /\ served[k].status = 400
           /\ \A j \in DOMAIN appLog : appLog[j][1] # k
      /\ served[k].status = 500 <=>
            \/ req.signature # NoneValue /\ ~req.signature.ascii
            \/ signed /\ req.payload.kind # "dict"

\* C21: after a site run, the file named by the image_filename of every
\* persisted record holds the image bytes downloaded for that record's own
\* URL; two URLs of a batch that share their last path segment do not end up
\* with one file written by whichever task saved last.
C21_ImageFileIsTheRecordsOwn ==
    \A s \in 1..NumSites :
      JustPersisted(s) =>
        \A k \in DOMAIN handed[s] :
          images[handed[s][k].image_filename] = <<"bytes", handed[s][k].url>>

====
